---------------------------- MODULE Spec2Model ----------------------------
(***************************************************************************)
(* A state-machine model of csrc/wl_api.cpp, the C ABI adapter that wraps  *)
(* the xLearn engine: the error channel, the handle lifecycle and the      *)
(* parameter setters, the two DMatrix builders, stdout suppression, and    *)
(* fit / predict with their staging files.                                 *)
(*                                                                         *)
(* Conventions.  Object pointers are naturals and NULL is 0; a const char* *)
(* is a string and the null one is NULLP.  A C string is modelled by its   *)
(* text and the number of characters of it that are kept (Msg).  A float   *)
(* is modelled by an integer it represents exactly; the reciprocal 1/x is  *)
(* the rational [num |-> 1, den |-> x].  The engine (XLearnXxx) is external:  *)
(* each call into it returns a status chosen nondeterministically, and     *)
(* every call is logged in `last.engine`.  `last` describes the most       *)
(* recent call of the adapter: its arguments, what it did and returned.    *)
(***************************************************************************)
EXTENDS Integers, Sequences, FiniteSets, TLC

VARIABLES
  last_error,       \* static char last_error[1024]
  fit_counter,      \* static int fit_counter
  saved_stdout_fd,  \* static int saved_stdout_fd
  fdtab,            \* the process's descriptor table: fd -> destination
  fs,               \* the MEMFS files under /tmp: path -> bytes
  heap,             \* allocated objects: address -> object
  owned,            \* what the caller was handed through an output slot
  last,             \* the most recent call of the adapter
  client,           \* who drives the adapter: the calls it makes, the faults it meets
  pool              \* the engine's ThreadPool (thread_pool_wasm.h)

vars == <<last_error, fit_counter, saved_stdout_fd, fdtab, fs, heap, owned, last,
          client, pool>>

-----------------------------------------------------------------------------
(* Bounds of the model *)

MaxLive == 1
MaxCalls == 3
MaxFd == 5
MaxCells == 4
MaxThreads == 2
MaxTasks == 3
MaxIndex == 3

-----------------------------------------------------------------------------
(* Basic values *)

NULL == 0
NULLP == "nullptr"
OutSlot == NULL + 1
ErrBufSize == 1024

Min(a, b) == IF a < b THEN a ELSE b

Msg(text, n) == [text |-> text, len |-> n]
EmptyMsg == Msg("", 0)
NullMsg == Msg(NULLP, 0)

\* what XLearnGetLastError() may return after a failed engine call
EngineMsgs == {NullMsg, Msg("engine: bad argument", 20)}

\* and of any length: one character short of the buffer, as long as it, longer
LongMsgs == {Msg("engine: long message", n) : n \in {1023, 1024, 2000}}

\* one call into the engine: the function, the handle, two arguments, the status
Call(fn, h, a, b, ret) == [fn |-> fn, h |-> h, a |-> a, b |-> b, ret |-> ret]

-----------------------------------------------------------------------------
(* The clients.  A run is driven by one client, which calls a part of the   *)
(* adapter and runs in an environment where some system calls may fail.     *)

ConfigureOps == {"wl_xl_create", "wl_xl_free_handle", "wl_xl_set_str",
                 "wl_xl_set_int", "wl_xl_set_float", "wl_xl_set_bool"}
TrainOps == {"wl_xl_create", "wl_xl_create_dmatrix_dense",
             "wl_xl_create_dmatrix_csr", "wl_xl_fit", "wl_xl_predict"}
ReleaseOps == {"wl_xl_free_handle", "wl_xl_free_dmatrix", "wl_xl_free_buffer"}

\* the faults: the engine returns a failure ("engine") or rejects a default
\* of wl_xl_create ("default"), new throws std::bad_alloc ("bad_alloc"),
\* malloc returns NULL ("malloc"), fopen ("fopen"), dup ("dup") or open
\* ("open") fails
Client(ops, faults, inputs) == [ops |-> ops, faults |-> faults, inputs |-> inputs]
Clients ==
  { Client(ConfigureOps, {"engine", "default"}, "api"),
    Client(TrainOps, {"engine", "fopen", "malloc"}, "api"),
    Client(TrainOps, {"engine", "dup", "open"}, "api"),
    Client(TrainOps, {"engine", "bad_alloc"}, "api"),
    Client(TrainOps \cup ReleaseOps, {}, "api") }

\* the client that builds a matrix from every array of the model's size
BuildOps == {"wl_xl_create_dmatrix_dense", "wl_xl_create_dmatrix_csr",
             "wl_xl_free_dmatrix"}
BuildClient == Client(BuildOps, {}, "all")

\* the client whose engine reports failures with messages of any length
ErrorOps == {"wl_xl_create", "wl_xl_set_str", "wl_xl_create_dmatrix_dense",
             "wl_xl_fit", "wl_xl_predict"}
ErrorClient == Client(ErrorOps, {"engine", "bad_alloc"}, "long")

\* the engine itself, which calls none of the adapter and owns a ThreadPool
EngineClient == Client({}, {}, "api")

\* the client whose CSR arrays need not be well formed
MalformedOps == {"wl_xl_create_dmatrix_csr", "wl_xl_free_dmatrix"}
MalformedClient == Client(MalformedOps, {}, "malformed")

\* the client makes this call (a process that has trapped makes none)
Calls(op) ==
  /\ op \in client.ops
  /\ ~last.trapped
  /\ client' = client
  /\ pool' = pool

\* does the system call succeed?
Outcomes(fault) == IF fault \in client.faults THEN BOOLEAN ELSE {TRUE}

\* the status of a call into the engine
EngineRets == IF "engine" \in client.faults THEN {0, -1} ELSE {0}

\* what XLearnGetLastError returns after a failure
EngineErrors == IF client.inputs = "long" THEN EngineMsgs \cup LongMsgs ELSE EngineMsgs

-----------------------------------------------------------------------------
(* Error channel *)

\* a set_error that copies the whole message
set_errorUnbounded(msg) == msg

set_error(msg) == Msg(msg.text, Min(msg.len, ErrBufSize - 1))

wl_xl_get_last_error == last_error

\* err ? err : fallback
OrFallback(err, fallback) == IF err = NullMsg THEN fallback ELSE err

-----------------------------------------------------------------------------
(* The heap *)

\* The model's heap has room for MaxLive objects of each kind: a call that
\* would allocate one more is not made.  The addresses of one kind are
\* consecutive, and an allocation takes the lowest free one.
KindIndex(kind) ==
  IF kind = "handle" THEN 0 ELSE IF kind = "dmatrix" THEN 1
  ELSE IF kind = "bytes" THEN 2 ELSE 3
Addrs(kind) == (KindIndex(kind) * MaxLive + 1)..((KindIndex(kind) + 1) * MaxLive)
FreeAddrs(kind) == Addrs(kind) \ DOMAIN heap
FreshAddr(kind) == CHOOSE a \in FreeAddrs(kind) : \A b \in FreeAddrs(kind) : a <= b

\* the engine's own (static, reused) prediction vector lives past them
EngineVec == 4 * MaxLive + 1

Alloc(h, a, obj) == [x \in DOMAIN h \cup {a} |-> IF x = a THEN obj ELSE h[x]]
Release(h, a) == [x \in DOMAIN h \ {a} |-> h[x]]

OfKind(k) == {a \in DOMAIN owned : owned[a].kind = k}

NoPath == <<"none", 0>>
NoWrite == <<>>

\* the record of one call of the adapter: its arguments and status, the calls
\* it made into the engine, whether it cleared last_error on entry and stored
\* a message, the staging path it allocated, what it wrote to its output
\* slots, whether it redirected stdout, and the descriptor table and the
\* counter it started from
LastCall(op, args, ret, engine, stored, cleared, path, out) ==
  [op |-> op, args |-> args, ret |-> ret, engine |-> engine, stored |-> stored,
   cleared |-> cleared, path |-> path, out |-> out,
   suppressed |-> FALSE,
   fd_before |-> fdtab, counter_before |-> fit_counter,
   msg |-> EmptyMsg, oob |-> {}, trapped |-> FALSE]

\* the call handed msg to set_error
Storing(call, msg) == [call EXCEPT !.msg = msg]

-----------------------------------------------------------------------------
(* Handle lifecycle *)

OutSlots == {NULL, OutSlot}

\* wl_xl_create(model_type, out): a good call, and one for each null argument
CreateArgs ==
  { [model_type |-> "fm", out |-> OutSlot],
    [model_type |-> NULLP, out |-> OutSlot],
    [model_type |-> "fm", out |-> NULL] }

\* the indices of the default setters of wl_xl_create that the engine rejects
DefaultFailures ==
  {{}} \cup (IF "default" \in client.faults THEN {{i} : i \in 1..7} ELSE {})

CreateInvalid(model_type, out) == model_type = NULLP \/ out = NULL

\* the seven WASM-friendly defaults, in the order wl_xl_create applies them
CreateDefaults(handle, failing) ==
  LET r(i) == IF i \in failing THEN -1 ELSE 0 IN
  << Call("XLearnSetBool", handle, "quiet", TRUE, r(1)),
     Call("XLearnSetBool", handle, "lock_free", FALSE, r(2)),
     Call("XLearnSetBool", handle, "from_file", FALSE, r(3)),
     Call("XLearnSetBool", handle, "bin_out", FALSE, r(4)),
     Call("XLearnSetBool", handle, "early_stop", FALSE, r(5)),
     Call("XLearnSetInt", handle, "nthread", 1, r(6)),
     Call("XLearnSetStr", handle, "log", "/dev/null", r(7)) >>

wl_xl_create ==
  /\ Calls("wl_xl_create")
  /\ \E args \in CreateArgs, eret \in EngineRets, eerr \in EngineErrors,
        failing \in DefaultFailures :
       LET op == "wl_xl_create"
           model_type == args.model_type
           out == args.out
           create == Call("XLearnCreate", NULL, model_type, NULL, eret)
       IN
       IF CreateInvalid(model_type, out) THEN
         /\ last_error' = set_error(Msg("wl_xl_create: null argument", 27))
         /\ last' = Storing(LastCall(op, args, -1, <<>>, TRUE, TRUE, NoPath, NoWrite),
                            Msg("wl_xl_create: null argument", 27))
         /\ UNCHANGED <<heap, owned>>
       ELSE IF eret # 0 THEN
         /\ last_error' = set_error(OrFallback(eerr, Msg("XLearnCreate failed", 19)))
         /\ last' = Storing(LastCall(op, args, -1, <<create>>, TRUE, TRUE, NoPath,
                                     NoWrite),
                            OrFallback(eerr, Msg("XLearnCreate failed", 19)))
         /\ UNCHANGED <<heap, owned>>
       ELSE
         /\ FreeAddrs("handle") # {}
         /\ last_error' = EmptyMsg
         /\ heap' = Alloc(heap, FreshAddr("handle"), [kind |-> "handle"])
         /\ owned' = Alloc(owned, FreshAddr("handle"), [kind |-> "handle"])
         /\ last' = LastCall(op, args, 0,
                             <<create>> \o CreateDefaults(FreshAddr("handle"), failing),
                             FALSE, TRUE, NoPath, <<FreshAddr("handle")>>)
  /\ UNCHANGED <<fit_counter, saved_stdout_fd, fdtab, fs>>

\* the engine's handle is deleted; the error channel is not touched
wl_xl_free_handle ==
  /\ Calls("wl_xl_free_handle")
  /\ \E handle \in {NULL} \cup OfKind("handle") :
    /\ IF handle # NULL
         THEN heap' = Release(heap, handle) /\ owned' = Release(owned, handle)
         ELSE UNCHANGED <<heap, owned>>
    /\ last' = LastCall("wl_xl_free_handle", [ptr |-> handle], 0, <<>>, FALSE, FALSE,
                        NoPath, NoWrite)
    /\ UNCHANGED <<last_error, fit_counter, saved_stdout_fd, fdtab, fs>>

-----------------------------------------------------------------------------
(* Parameter setters *)

\* a set_str that checks the handle and the key only
SetStrInvalidAnyValue(handle, key, value) == handle = NULL \/ key = NULLP

SetStrInvalid(handle, key, value) == handle = NULL \/ key = NULLP \/ value = NULLP
SetIntInvalid(handle, key) == handle = NULL \/ key = NULLP
SetFloatInvalid(handle, key) == handle = NULL \/ key = NULLP
SetBoolInvalid(handle, key) == handle = NULL \/ key = NULLP

\* (bool)value
ToBool(value) == value # 0

\* what a setter does: the message it leaves, the status, the engine call
Setter(op, args, invalid, msg, call) ==
  /\ IF invalid
       THEN /\ last_error' = set_error(msg)
            /\ last' = Storing(LastCall(op, args, -1, <<>>, TRUE, FALSE, NoPath,
                                        NoWrite), msg)
       ELSE /\ last_error' = last_error
            /\ last' = LastCall(op, args, call.ret, <<call>>, FALSE, FALSE,
                                NoPath, NoWrite)
  /\ UNCHANGED <<fit_counter, saved_stdout_fd, fdtab, fs, heap, owned>>

\* a good call for each live handle (for the null handle when there is none)
\* and, for each argument named in nulls, the call with that argument null
Variants(good, nulls) ==
  {good} \cup {[good EXCEPT ![f] = nulls[f]] : f \in DOMAIN nulls}
SomeHandle == IF OfKind("handle") = {} THEN {NULL} ELSE OfKind("handle")
SomeMatrix == IF OfKind("dmatrix") = {} THEN {NULL} ELSE OfKind("dmatrix")

SetStrArgs ==
  UNION {Variants([handle |-> h, key |-> "log", value |-> "run.log"],
                  [handle |-> NULL, key |-> NULLP, value |-> NULLP]) : h \in SomeHandle}
SetIntArgs ==
  UNION {Variants([handle |-> h, key |-> "epoch", value |-> v],
                  [handle |-> NULL, key |-> NULLP]) : h \in SomeHandle, v \in {-1, 5}}
SetFloatArgs ==
  UNION {Variants([handle |-> h, key |-> "lr", value |-> v],
                  [handle |-> NULL, key |-> NULLP]) : h \in SomeHandle, v \in {0, 2}}
SetBoolArgs ==
  UNION {Variants([handle |-> h, key |-> "quiet", value |-> v],
                  [handle |-> NULL, key |-> NULLP]) : h \in SomeHandle, v \in {0, 2}}

wl_xl_set_str ==
  /\ Calls("wl_xl_set_str")
  /\ \E a \in SetStrArgs, eret \in EngineRets :
    Setter("wl_xl_set_str", a, SetStrInvalid(a.handle, a.key, a.value),
           Msg("wl_xl_set_str: null argument", 28),
           Call("XLearnSetStr", a.handle, a.key, a.value, eret))

wl_xl_set_int ==
  /\ Calls("wl_xl_set_int")
  /\ \E a \in SetIntArgs, eret \in EngineRets :
    Setter("wl_xl_set_int", a, SetIntInvalid(a.handle, a.key),
           Msg("wl_xl_set_int: null argument", 28),
           Call("XLearnSetInt", a.handle, a.key, a.value, eret))

wl_xl_set_float ==
  /\ Calls("wl_xl_set_float")
  /\ \E a \in SetFloatArgs, eret \in EngineRets :
    Setter("wl_xl_set_float", a, SetFloatInvalid(a.handle, a.key),
           Msg("wl_xl_set_float: null argument", 30),
           Call("XLearnSetFloat", a.handle, a.key, a.value, eret))

wl_xl_set_bool ==
  /\ Calls("wl_xl_set_bool")
  /\ \E a \in SetBoolArgs, eret \in EngineRets :
    Setter("wl_xl_set_bool", a, SetBoolInvalid(a.handle, a.key),
           Msg("wl_xl_set_bool: null argument", 29),
           Call("XLearnSetBool", a.handle, a.key, ToBool(a.value), eret))

-----------------------------------------------------------------------------
(* DMatrix builders *)

\* an array argument: a null pointer, or the elements (C index i is at[i + 1])
NullArr == [null |-> TRUE, at |-> <<>>]
Arr(seq) == [null |-> FALSE, at |-> seq]
At(arr, i) == arr.at[i + 1]

\* (xLearn::index_t)x of an int x: index_t is an unsigned 32-bit integer, so
\* the cast keeps every x >= 0; the arrays of the model hold no negative index
IndexT(x) == x

Node(feat_id, feat_val, field_id) ==
  [feat_id |-> feat_id, feat_val |-> feat_val, field_id |-> field_id]

One == [num |-> 1, den |-> 1]
Recip(x) == [num |-> 1, den |-> x]

\* a scalar without the fallback for an empty row
NormScalarNoFallback(norm) == Recip(norm)

\* (norm > 0.0f) ? (1.0f / norm) : 1.0f
NormScalar(norm) == IF norm > 0 THEN Recip(norm) ELSE One

\* field_map ? (index_t)field_map[j] : 0
FieldId(field_map, j) == IF field_map.null THEN 0 ELSE IndexT(At(field_map, j))

\* a dense loop that keeps every cell
DenseSkipsNothing(val) == FALSE

\* has the dense loop skipped this value?  (val == 0.0f)
DenseSkips(val) == val = 0

\* matrix->AddRow() and the label: a row with no node, Y = 0 or label[i]
\* a row loop that never stores the label
NewRowUnlabelled(label, i) == [nodes |-> <<>>, Y |-> 0, norm |-> One]

NewRow(label, i) ==
  [nodes |-> <<>>, Y |-> IF label.null THEN 0 ELSE At(label, i), norm |-> One]

\* the inner loop of wl_xl_create_dmatrix_dense from column j on:
\* acc is the row's nodes and the norm accumulated so far
RECURSIVE DenseCols(_, _, _, _, _, _)
DenseCols(data, i, ncol, field_map, j, acc) ==
  IF j >= ncol THEN acc
  ELSE LET val == At(data, i * ncol + j) IN
       IF DenseSkips(val)
         THEN DenseCols(data, i, ncol, field_map, j + 1, acc)
         ELSE DenseCols(data, i, ncol, field_map, j + 1,
                [nodes |-> Append(acc.nodes,
                                  Node(IndexT(j), val, FieldId(field_map, j))),
                 norm |-> acc.norm + val * val])

DenseRow(data, i, ncol, label, field_map) ==
  LET r == DenseCols(data, i, ncol, field_map, 0, [nodes |-> <<>>, norm |-> 0])
  IN [nodes |-> r.nodes, Y |-> NewRow(label, i).Y, norm |-> NormScalar(r.norm)]

\* the matrix after the first n iterations of the row loop
DenseMatrix(data, n, ncol, label, field_map) ==
  [kind |-> "dmatrix", has_label |-> ~label.null,
   rows |-> [i \in 1..n |-> DenseRow(data, i - 1, ncol, label, field_map)]]

\* the inner loop of wl_xl_create_dmatrix_csr from entry j on
RECURSIVE CsrEntries(_, _, _, _, _, _)
CsrEntries(values, col_indices, field_map, j, end, acc) ==
  IF j >= end THEN acc
  ELSE LET col == At(col_indices, j)
           val == At(values, j)
       IN CsrEntries(values, col_indices, field_map, j + 1, end,
            [nodes |-> Append(acc.nodes,
                              Node(IndexT(col), val, FieldId(field_map, col))),
             norm |-> acc.norm + val * val])

\* a CSR row loop that drops the entries whose value is zero
CsrRowSkippingZeros(values, col_indices, row_ptr, i, label, field_map) ==
  LET r == CsrEntries(values, col_indices, field_map,
                      At(row_ptr, i), At(row_ptr, i + 1),
                      [nodes |-> <<>>, norm |-> 0])
      kept(node) == node.feat_val # 0
  IN [nodes |-> SelectSeq(r.nodes, kept), Y |-> NewRow(label, i).Y,
      norm |-> NormScalar(r.norm)]

\* one iteration of the row loop of wl_xl_create_dmatrix_csr
CsrRow(values, col_indices, row_ptr, i, label, field_map) ==
  LET r == CsrEntries(values, col_indices, field_map,
                      At(row_ptr, i), At(row_ptr, i + 1),
                      [nodes |-> <<>>, norm |-> 0])
  IN [nodes |-> r.nodes, Y |-> NewRow(label, i).Y, norm |-> NormScalar(r.norm)]

CsrMatrix(values, col_indices, row_ptr, n, label, field_map) ==
  [kind |-> "dmatrix", has_label |-> ~label.null,
   rows |-> [i \in 1..n |-> CsrRow(values, col_indices, row_ptr, i - 1,
                                    label, field_map)]]

DenseInvalid(data, nrow, ncol, out) ==
  data.null \/ nrow <= 0 \/ ncol <= 0 \/ out = NULL

CsrInvalid(values, col_indices, row_ptr, nrow, ncol, out) ==
  values.null \/ col_indices.null \/ row_ptr.null \/ nrow <= 0 \/ ncol <= 0
    \/ out = NULL

BadAlloc == Msg("std::bad_alloc", 14)

\* where std::bad_alloc is thrown while a matrix of nrow rows is built:
\* nowhere (nrow), in `new DMatrix` (-1), or while row k is added (k)
ThrowPoints(nrow) ==
  {nrow} \cup (IF "bad_alloc" \in client.faults THEN {-1} \cup 0..(nrow - 1) ELSE {})

\* the common frame of the two builders: op and args name the call, invalid
\* is its argument check, msg its diagnostic, built[n] the matrix after n rows
Builder(op, args, invalid, msg, nrow, built, throw) ==
  /\ IF invalid THEN
        /\ last_error' = set_error(msg)
        /\ last' = Storing(LastCall(op, args, -1, <<>>, TRUE, TRUE, NoPath, NoWrite),
                           msg)
        /\ UNCHANGED <<heap, owned>>
     ELSE IF throw = -1 THEN
        /\ last_error' = set_error(BadAlloc)
        /\ last' = Storing(LastCall(op, args, -1, <<>>, TRUE, TRUE, NoPath, NoWrite),
                           BadAlloc)
        /\ UNCHANGED <<heap, owned>>
     ELSE IF throw < nrow THEN
        /\ FreeAddrs("dmatrix") # {}
        /\ last_error' = set_error(BadAlloc)
        /\ heap' = Alloc(heap, FreshAddr("dmatrix"), built[throw])
        /\ last' = Storing(LastCall(op, args, -1, <<>>, TRUE, TRUE, NoPath, NoWrite),
                           BadAlloc)
        /\ UNCHANGED owned
     ELSE
        /\ FreeAddrs("dmatrix") # {}
        /\ last_error' = EmptyMsg
        /\ heap' = Alloc(heap, FreshAddr("dmatrix"), built[nrow])
        /\ owned' = Alloc(owned, FreshAddr("dmatrix"), [kind |-> "dmatrix"])
        /\ last' = LastCall(op, args, 0, <<>>, FALSE, TRUE, NoPath, <<FreshAddr("dmatrix")>>)
  /\ UNCHANGED <<fit_counter, saved_stdout_fd, fdtab, fs>>

create_dmatrix_dense(a, throw) ==
  LET built == [n \in 0..a.nrow |->
                 DenseMatrix(a.data, n, a.ncol, a.label, a.field_map)] IN
  Builder("wl_xl_create_dmatrix_dense", a,
          DenseInvalid(a.data, a.nrow, a.ncol, a.out),
          Msg("wl_xl_create_dmatrix_dense: invalid arguments", 45),
          a.nrow, built, throw)

create_dmatrix_csr(a, throw) ==
  LET built == [n \in 0..a.nrow |->
                 CsrMatrix(a.values, a.col_indices, a.row_ptr, n, a.label,
                           a.field_map)] IN
  Builder("wl_xl_create_dmatrix_csr", a,
          CsrInvalid(a.values, a.col_indices, a.row_ptr, a.nrow, a.ncol, a.out),
          Msg("wl_xl_create_dmatrix_csr: invalid arguments", 43),
          a.nrow, built, throw)

\* the entry indices the row loop of wl_xl_create_dmatrix_csr visits:
\* j = row_ptr[i] .. row_ptr[i + 1] - 1 for i = 0 .. nrow - 1
CsrVisited(a) ==
  UNION {At(a.row_ptr, i)..(At(a.row_ptr, i + 1) - 1) : i \in 0..(a.nrow - 1)}

\* the reads of the row loop that fall outside the arrays as the caller
\* declared them: values[j] and col_indices[j] outside [0, nnz), and
\* field_map[col] outside [0, ncol) for the columns read inside
CsrOutOfBounds(a) ==
  LET inside == CsrVisited(a) \cap 0..(a.nnz - 1)
      outside == CsrVisited(a) \ inside
  IN {<<"values", j>> : j \in outside}
       \cup {<<"col_indices", j>> : j \in outside}
       \cup (IF a.field_map.null THEN {}
             ELSE {<<"field_map", At(a.col_indices, j)>> :
                     j \in {k \in inside :
                              At(a.col_indices, k) \notin 0..(a.ncol - 1)}})

\* what an out-of-bounds read returns when it does not trap
Junk == {0, MaxIndex}

\* the memory around an array: the array at its indices, junk elsewhere
Surrounded(arr, junk) ==
  [null |-> arr.null,
   at |-> [k \in 0..(MaxIndex + 1) |->
             IF k \in DOMAIN arr.at THEN arr.at[k] ELSE junk]]

\* wl_xl_create_dmatrix_csr when the row loop leaves the arrays (undefined
\* behaviour): the read traps, or it returns what lies there and the matrix
\* is built from it
csr_out_of_bounds(a) ==
  LET op == "wl_xl_create_dmatrix_csr"
      call(ret, out) ==
        [LastCall(op, a, ret, <<>>, FALSE, TRUE, NoPath, out)
           EXCEPT !.oob = CsrOutOfBounds(a)]
  IN
  /\ last_error' = EmptyMsg
  /\ \/ /\ last' = [call(0, NoWrite) EXCEPT !.trapped = TRUE]
        /\ UNCHANGED <<heap, owned>>
     \/ \E junk \in Junk :
          /\ FreeAddrs("dmatrix") # {}
          /\ heap' = Alloc(heap, FreshAddr("dmatrix"),
                           CsrMatrix(Surrounded(a.values, junk),
                                     Surrounded(a.col_indices, junk), a.row_ptr,
                                     a.nrow, a.label, Surrounded(a.field_map, junk)))
          /\ owned' = Alloc(owned, FreshAddr("dmatrix"), [kind |-> "dmatrix"])
          /\ last' = call(0, <<FreshAddr("dmatrix")>>)
  /\ UNCHANGED <<fit_counter, saved_stdout_fd, fdtab, fs>>

\* dm->Reset(); delete dm;
wl_xl_free_dmatrix ==
  /\ Calls("wl_xl_free_dmatrix")
  /\ \E dmatrix \in {NULL} \cup OfKind("dmatrix") :
    /\ IF dmatrix # NULL
         THEN heap' = Release(heap, dmatrix) /\ owned' = Release(owned, dmatrix)
         ELSE UNCHANGED <<heap, owned>>
    /\ last' = LastCall("wl_xl_free_dmatrix", [ptr |-> dmatrix], 0, <<>>, FALSE,
                        FALSE, NoPath, NoWrite)
    /\ UNCHANGED <<last_error, fit_counter, saved_stdout_fd, fdtab, fs>>

-----------------------------------------------------------------------------
(* stdout suppression *)

Fds == 0..(MaxFd - 1)

\* the lowest descriptor that is not open, or -1
LowestFree(tab) ==
  IF \A fd \in Fds : tab[fd] # "closed" THEN -1
  ELSE CHOOSE fd \in Fds : tab[fd] = "closed" /\ \A g \in Fds : tab[g] = "closed" => fd <= g

IsOpen(tab, fd) == fd \in Fds /\ tab[fd] # "closed"

\* dup(fd): ok = FALSE is a failure for want of a resource
sys_dup(tab, fd, ok) ==
  IF ok /\ IsOpen(tab, fd) /\ LowestFree(tab) # -1
    THEN [tab |-> [tab EXCEPT ![LowestFree(tab)] = tab[fd]], ret |-> LowestFree(tab)]
    ELSE [tab |-> tab, ret |-> -1]

\* open("/dev/null", O_WRONLY)
sys_open(tab, dest, ok) ==
  IF ok /\ LowestFree(tab) # -1
    THEN [tab |-> [tab EXCEPT ![LowestFree(tab)] = dest], ret |-> LowestFree(tab)]
    ELSE [tab |-> tab, ret |-> -1]

\* dup2(oldfd, newfd): nothing happens when oldfd is not an open descriptor
sys_dup2(tab, oldfd, newfd) ==
  IF IsOpen(tab, oldfd) THEN [tab EXCEPT ![newfd] = tab[oldfd]] ELSE tab

sys_close(tab, fd) == IF IsOpen(tab, fd) THEN [tab EXCEPT ![fd] = "closed"] ELSE tab

suppress_stdout(tab, dup_ok, open_ok) ==
  LET d == sys_dup(tab, 1, dup_ok)
      o == sys_open(d.tab, "devnull", open_ok)
  IN [tab |-> sys_close(sys_dup2(o.tab, o.ret, 1), o.ret), saved |-> d.ret]

restore_stdout(tab, saved) ==
  IF saved >= 0
    THEN [tab |-> sys_close(sys_dup2(tab, saved, 1), saved), saved |-> -1]
    ELSE [tab |-> tab, saved |-> saved]

\* suppress_stdout(); <the engine runs>; restore_stdout();
AroundEngine(tab, dup_ok, open_ok) ==
  LET s == suppress_stdout(tab, dup_ok, open_ok) IN restore_stdout(s.tab, s.saved)

-----------------------------------------------------------------------------
(* The staging files and the counter *)

\* snprintf(model_path, ..., "/tmp/wl_xl_model_%d", n) and ".../wl_xl_pred_%d"
FitPath(n) == <<"/tmp/wl_xl_model_", n>>
PredictPath(n) == <<"/tmp/wl_xl_pred_", n>>

\* a counter that is read and not advanced
NextCounterStuck(n) == n

\* fit_counter++
NextCounter(n) == n + 1

\* a write that leaves the file empty
WriteFileEmpty(files, path, bytes) ==
  [p \in DOMAIN files \cup {path} |-> IF p = path THEN <<>> ELSE files[p]]

\* the file at path holds bytes (the engine's save, or fopen "wb" / fwrite)
WriteFile(files, path, bytes) ==
  [p \in DOMAIN files \cup {path} |-> IF p = path THEN bytes ELSE files[p]]
\* remove(path)
RemoveFile(files, path) == [p \in DOMAIN files \ {path} |-> files[p]]

\* (int)x of a size or length x: the value itself below 2^31, and the files
\* and vectors of the model are a few elements long
ToInt(x) == x

\* the model files the engine may write, the predictions it may produce
ModelBytes == {<<7>>, <<7, 8>>}
EnginePreds == {<<>>, <<3>>, <<4, 5>>}

\* a call fails: the diagnostic is stored and -1 returned
Fail(op, args, msg, engine, path, sup) ==
  /\ last_error' = set_error(msg)
  /\ last' = [LastCall(op, args, -1, engine, TRUE, TRUE, path, NoWrite)
                EXCEPT !.suppressed = sup, !.msg = msg]

\* a call succeeds: the output slots are written and 0 returned
Done(op, args, engine, path, out, sup) ==
  /\ last_error' = EmptyMsg
  /\ last' = [LastCall(op, args, 0, engine, FALSE, TRUE, path, out)
                EXCEPT !.suppressed = sup]

-----------------------------------------------------------------------------
(* fit *)

FitInvalid(handle, dtrain, out_model_buf, out_model_len) ==
  handle = NULL \/ dtrain = NULL \/ out_model_buf = NULL \/ out_model_len = NULL

\* wl_xl_fit from the allocation of the staging path on; `bound` is the log
\* of the XLearnSetDMatrix calls made so far
FitStaged(args, bound, eerr) ==
  LET op == "wl_xl_fit"
      path == FitPath(fit_counter)
  IN
  /\ fit_counter < MaxCalls
  /\ fit_counter' = NextCounter(fit_counter)
  /\ \E dup_ok \in Outcomes("dup"), open_ok \in Outcomes("open"), r3 \in EngineRets :
       LET io == AroundEngine(fdtab, dup_ok, open_ok) IN
       /\ fdtab' = io.tab
       /\ saved_stdout_fd' = io.saved
       /\ IF r3 # 0 THEN
            \* the engine may have left a file; remove(model_path)
            \E left \in {fs, WriteFile(fs, path, <<>>)} :
              /\ Fail(op, args, OrFallback(eerr, Msg("XLearnFit failed", 16)),
                      Append(bound, Call("XLearnFit", args.handle, path, <<>>, r3)),
                      path, TRUE)
              /\ fs' = RemoveFile(left, path)
              /\ UNCHANGED <<heap, owned>>
          ELSE
            \E bytes \in ModelBytes, fopen_ok \in Outcomes("fopen"),
               malloc_ok \in Outcomes("malloc") :
              LET written == WriteFile(fs, path, bytes)
                  engine == Append(bound,
                                   Call("XLearnFit", args.handle, path, bytes, r3))
                  size == Len(written[path])
              IN
              IF ~fopen_ok THEN
                /\ Fail(op, args,
                        Msg("wl_xl_fit: cannot read model file from MEMFS", 44),
                        engine, path, TRUE)
                /\ fs' = written
                /\ UNCHANGED <<heap, owned>>
              ELSE IF ~malloc_ok THEN
                /\ Fail(op, args, Msg("wl_xl_fit: allocation failed", 28),
                        engine, path, TRUE)
                /\ fs' = RemoveFile(written, path)
                /\ UNCHANGED <<heap, owned>>
              ELSE
                /\ FreeAddrs("bytes") # {}
                /\ Done(op, args, engine, path, <<FreshAddr("bytes"), ToInt(size)>>,
                        TRUE)
                /\ fs' = RemoveFile(written, path)
                /\ heap' = Alloc(heap, FreshAddr("bytes"),
                                 [kind |-> "bytes", data |-> written[path]])
                /\ owned' = Alloc(owned, FreshAddr("bytes"),
                                  [kind |-> "bytes", data |-> written[path],
                                   len |-> ToInt(size)])

\* a fit that does not look at the status of XLearnSetDMatrix
BindFailedIgnored(ret) == FALSE

\* if (ret != 0) after XLearnSetDMatrix
BindFailed(ret) == ret # 0

FitArgs ==
  UNION {Variants([handle |-> h, dtrain |-> m, dvalid |-> v,
                   out_model_buf |-> OutSlot, out_model_len |-> OutSlot],
                  [handle |-> NULL, dtrain |-> NULL, out_model_buf |-> NULL,
                   out_model_len |-> NULL]) :
         h \in SomeHandle, m \in SomeMatrix, v \in {NULL} \cup SomeMatrix}

wl_xl_fit ==
  /\ Calls("wl_xl_fit")
  /\ \E args \in FitArgs :
    LET op == "wl_xl_fit"
        handle == args.handle
        dtrain == args.dtrain
        dvalid == args.dvalid
        out_model_buf == args.out_model_buf
        out_model_len == args.out_model_len
    IN
    IF FitInvalid(handle, dtrain, out_model_buf, out_model_len) THEN
      /\ Fail(op, args, Msg("wl_xl_fit: null argument", 24), <<>>, NoPath, FALSE)
      /\ UNCHANGED <<fit_counter, saved_stdout_fd, fdtab, fs, heap, owned>>
    ELSE
      \E r1 \in EngineRets, r2 \in (IF dvalid = NULL THEN {0} ELSE EngineRets),
         eerr \in EngineErrors :
        LET c1 == Call("XLearnSetDMatrix", handle, "train", dtrain, r1)
            c2 == Call("XLearnSetDMatrix", handle, "validate", dvalid, r2)
        IN
        IF BindFailed(r1) THEN
          /\ Fail(op, args,
                  OrFallback(eerr, Msg("XLearnSetDMatrix(train) failed", 30)),
                  <<c1>>, NoPath, FALSE)
          /\ UNCHANGED <<fit_counter, saved_stdout_fd, fdtab, fs, heap, owned>>
        ELSE IF BindFailed(r2) THEN
          /\ Fail(op, args,
                  OrFallback(eerr, Msg("XLearnSetDMatrix(validate) failed", 33)),
                  <<c1, c2>>, NoPath, FALSE)
          /\ UNCHANGED <<fit_counter, saved_stdout_fd, fdtab, fs, heap, owned>>
        ELSE
          FitStaged(args, IF dvalid = NULL THEN <<c1>> ELSE <<c1, c2>>, eerr)

-----------------------------------------------------------------------------
(* predict *)

\* a predict that checks its pointers only
PredictInvalidAnyLength(handle, model_buf, model_len, dtest, out_preds, out_len) ==
  handle = NULL \/ model_buf = NULL \/ dtest = NULL \/ out_preds = NULL
    \/ out_len = NULL

PredictInvalid(handle, model_buf, model_len, dtest, out_preds, out_len) ==
  handle = NULL \/ model_buf = NULL \/ model_len <= 0 \/ dtest = NULL
    \/ out_preds = NULL \/ out_len = NULL

\* a predict that hands out the engine's pointer
PredictResultAlias(arr, result) == arr

\* the array wl_xl_predict hands out: the malloc'ed copy, not the engine's arr
PredictResult(arr, result) == result

\* the engine overwrites its prediction vector
EngineWrites(h, preds) == Alloc(h, EngineVec, [kind |-> "engine", data |-> preds])

\* the caller passes a buffer fit returned, with its length
PredictGood ==
  {[handle |-> h, model_buf |-> b, model_len |-> IF b = NULL THEN 1 ELSE owned[b].len,
    dtest |-> m, out_preds |-> OutSlot, out_len |-> OutSlot] :
   h \in SomeHandle, m \in SomeMatrix,
   b \in IF OfKind("bytes") = {} THEN {NULL} ELSE OfKind("bytes")}
PredictArgs ==
  UNION {Variants(g, [handle |-> NULL, model_buf |-> NULL, model_len |-> 0,
                      dtest |-> NULL, out_preds |-> NULL, out_len |-> NULL])
           \cup {[g EXCEPT !.model_len = -1]} : g \in PredictGood}

\* wl_xl_predict from the binding of the test matrix on; `written` is the
\* file system with the staging file in it
PredictStaged(args, path, written) ==
  LET op == "wl_xl_predict" IN
  \E r1 \in EngineRets, eerr \in EngineErrors :
    LET c1 == Call("XLearnSetDMatrix", args.handle, "test", args.dtest, r1) IN
    IF r1 # 0 THEN
      /\ Fail(op, args, OrFallback(eerr, Msg("XLearnSetDMatrix(test) failed", 29)),
              <<c1>>, path, FALSE)
      /\ fs' = RemoveFile(written, path)
      /\ UNCHANGED <<saved_stdout_fd, fdtab, heap, owned>>
    ELSE
      \E dup_ok \in Outcomes("dup"), open_ok \in Outcomes("open"), r2 \in EngineRets,
         preds \in EnginePreds, malloc_ok \in Outcomes("malloc") :
        LET io == AroundEngine(fdtab, dup_ok, open_ok)
            engine == <<c1, Call("XLearnPredictForMat", args.handle, path,
                                 written[path], r2)>>
            heap1 == EngineWrites(heap, preds)
            length == Len(preds)
            arr == EngineVec
            n == ToInt(length)
            result == PredictResult(arr, FreshAddr("floats"))
            copy == SubSeq(heap1[arr].data, 1, n)
        IN
        /\ fdtab' = io.tab
        /\ saved_stdout_fd' = io.saved
        /\ fs' = RemoveFile(written, path)
        /\ IF r2 # 0 THEN
             /\ Fail(op, args,
                     OrFallback(eerr, Msg("XLearnPredictForMat failed", 26)),
                     engine, path, TRUE)
             /\ heap' = heap1
             /\ UNCHANGED owned
           ELSE IF ~malloc_ok THEN
             /\ Fail(op, args, Msg("wl_xl_predict: allocation failed", 32),
                     engine, path, TRUE)
             /\ heap' = heap1
             /\ UNCHANGED owned
           ELSE
             /\ FreeAddrs("floats") # {}
             /\ Done(op, args, engine, path, <<result, n>>, TRUE)
             /\ heap' = Alloc(heap1, result, [kind |-> "floats", data |-> copy])
             /\ owned' = Alloc(owned, result,
                               [kind |-> "floats", data |-> copy, len |-> n])

wl_xl_predict ==
  /\ Calls("wl_xl_predict")
  /\ \E args \in PredictArgs :
      LET op == "wl_xl_predict"
          handle == args.handle
          model_buf == args.model_buf
          model_len == args.model_len
          dtest == args.dtest
          out_preds == args.out_preds
          out_len == args.out_len
          path == PredictPath(fit_counter)
      IN
      IF PredictInvalid(handle, model_buf, model_len, dtest, out_preds, out_len)
      THEN
        /\ Fail(op, args, Msg("wl_xl_predict: null argument", 28), <<>>, NoPath,
                FALSE)
        /\ UNCHANGED <<fit_counter, saved_stdout_fd, fdtab, fs, heap, owned>>
      ELSE
        /\ fit_counter < MaxCalls
        /\ fit_counter' = NextCounter(fit_counter)
        /\ \E fopen_ok \in Outcomes("fopen") :
             IF ~fopen_ok THEN
               /\ Fail(op, args,
                       Msg("wl_xl_predict: cannot create model file in MEMFS", 48),
                       <<>>, path, FALSE)
               /\ UNCHANGED <<saved_stdout_fd, fdtab, fs, heap, owned>>
             ELSE
               PredictStaged(args, path,
                 WriteFile(fs, path, SubSeq(heap[model_buf].data, 1, model_len)))

-----------------------------------------------------------------------------
(* Memory management *)

\* free(ptr)
wl_xl_free_buffer ==
  /\ Calls("wl_xl_free_buffer")
  /\ \E ptr \in {NULL} \cup OfKind("bytes") \cup OfKind("floats") :
    /\ IF ptr # NULL
         THEN heap' = Release(heap, ptr) /\ owned' = Release(owned, ptr)
         ELSE UNCHANGED <<heap, owned>>
    /\ last' = LastCall("wl_xl_free_buffer", [ptr |-> ptr], 0, <<>>, FALSE, FALSE,
                        NoPath, NoWrite)
    /\ UNCHANGED <<last_error, fit_counter, saved_stdout_fd, fdtab, fs>>

-----------------------------------------------------------------------------
(* The arguments the builders are called with *)

DenseArgs(data, nrow, ncol, label, field_map, out) ==
  [data |-> data, nrow |-> nrow, ncol |-> ncol, label |-> label,
   field_map |-> field_map, out |-> out]

CsrArgs(values, nnz, col_indices, row_ptr, nrow, ncol, label, field_map, out) ==
  [values |-> values, nnz |-> nnz, col_indices |-> col_indices,
   row_ptr |-> row_ptr, nrow |-> nrow, ncol |-> ncol, label |-> label,
   field_map |-> field_map, out |-> out]

\* a one-row matrix (2, 0), and a call for every argument check
ApiDenseArgs ==
  LET d == Arr(<<2, 0>>) IN
  { DenseArgs(d, 1, 2, NullArr, NullArr, OutSlot),
    DenseArgs(NullArr, 1, 2, NullArr, NullArr, OutSlot),
    DenseArgs(d, 0, 2, NullArr, NullArr, OutSlot),
    DenseArgs(d, 1, -1, NullArr, NullArr, OutSlot),
    DenseArgs(d, 1, 2, NullArr, NullArr, NULL) }

ApiCsrArgs ==
  LET v == Arr(<<2>>)
      c == Arr(<<0>>)
      r == Arr(<<0, 1>>)
  IN
  { CsrArgs(v, 1, c, r, 1, 2, NullArr, NullArr, OutSlot),
    CsrArgs(NullArr, 1, c, r, 1, 2, NullArr, NullArr, OutSlot),
    CsrArgs(v, 1, NullArr, r, 1, 2, NullArr, NullArr, OutSlot),
    CsrArgs(v, 1, c, NullArr, 1, 2, NullArr, NullArr, OutSlot),
    CsrArgs(v, 1, c, r, 0, 2, NullArr, NullArr, OutSlot),
    CsrArgs(v, 1, c, r, 1, 0, NullArr, NullArr, OutSlot),
    CsrArgs(v, 1, c, r, 1, 2, NullArr, NullArr, NULL) }

\* Every array of at most MaxCells cells, with and without labels and a
\* field map; and the two-row example (1, 0, 2), (0, 0, 0) with labels.
Vals == {-1, 0, 1, 2}
Shapes == {sh \in (1..MaxCells) \X (1..MaxCells) : sh[1] * sh[2] <= MaxCells}
LabelFor(nrow) == Arr([i \in 1..nrow |-> nrow - i])
FieldMapFor(ncol) == Arr([j \in 1..ncol |-> ncol - j])

ExampleDense == DenseArgs(Arr(<<1, 0, 2, 0, 0, 0>>), 2, 3, Arr(<<1, 0>>), NullArr, OutSlot)

DenseInputs ==
  {ExampleDense} \cup
  UNION { { DenseArgs(Arr(d), sh[1], sh[2], l, f, OutSlot) :
              d \in [1..(sh[1] * sh[2]) -> Vals],
              l \in {NullArr, LabelFor(sh[1])},
              f \in {NullArr, FieldMapFor(sh[2])} } : sh \in Shapes }

\* the cells k <= n of a row-major grid that mask keeps, in order
RECURSIVE Picked(_, _)
Picked(mask, n) ==
  IF n = 0 THEN <<>>
  ELSE IF mask[n] THEN Append(Picked(mask, n - 1), n) ELSE Picked(mask, n - 1)

\* the CSR arrays of the nrow x ncol grid g in which the cells of mask are stored
GridCsr(g, mask, nrow, ncol, label, field_map, out) ==
  LET idx == Picked(mask, nrow * ncol)
      nnz == Len(idx)
  IN CsrArgs(Arr([t \in 1..nnz |-> g[idx[t]]]), nnz,
             Arr([t \in 1..nnz |-> (idx[t] - 1) % ncol]),
             Arr([i \in 1..(nrow + 1) |->
                    Cardinality({t \in 1..nnz : idx[t] <= (i - 1) * ncol})]),
             nrow, ncol, label, field_map, out)

\* every such grid of values 0, 1, 2 with any of its cells stored: an array in
\* CSR form whose stored entries may be zero
CsrVals == {0, 1, 2}
CsrInputs ==
  UNION { { GridCsr(g, mask, sh[1], sh[2], lf[1], lf[2], OutSlot) :
              g \in [1..(sh[1] * sh[2]) -> CsrVals],
              mask \in [1..(sh[1] * sh[2]) -> BOOLEAN],
              lf \in {<<NullArr, NullArr>>,
                      <<LabelFor(sh[1]), FieldMapFor(sh[2])>>} } : sh \in Shapes }

\* CSR arrays of two entries whose row_ptr and col_indices hold any index from
\* -1 to MaxIndex: ranges that run backwards, start before the arrays or end
\* past them, columns past ncol
MalformedInputs ==
  UNION { { CsrArgs(Arr(<<1, 2>>), 2, Arr(c), Arr(r), nrow, 2, NullArr, f, OutSlot) :
              c \in [1..2 -> 0..(MaxIndex - 1)],
              r \in [1..(nrow + 1) -> (-1)..MaxIndex],
              f \in {NullArr, FieldMapFor(2)} } : nrow \in 1..2 }

\* the build client holds one matrix at a time: it builds, looks, releases
BuildInputs(inputs) == IF owned = << >> THEN inputs ELSE {}

wl_xl_create_dmatrix_dense ==
  /\ Calls("wl_xl_create_dmatrix_dense")
  /\ \E a \in (IF client.inputs = "all" THEN BuildInputs(DenseInputs) ELSE ApiDenseArgs) :
       \E throw \in ThrowPoints(a.nrow) : create_dmatrix_dense(a, throw)

wl_xl_create_dmatrix_csr ==
  /\ Calls("wl_xl_create_dmatrix_csr")
  /\ \E a \in (IF client.inputs = "all" THEN BuildInputs(CsrInputs)
              ELSE IF client.inputs = "malformed" THEN BuildInputs(MalformedInputs)
              ELSE ApiCsrArgs) :
       IF /\ ~CsrInvalid(a.values, a.col_indices, a.row_ptr, a.nrow, a.ncol, a.out)
          /\ CsrOutOfBounds(a) # {}
         THEN csr_out_of_bounds(a)
         ELSE \E throw \in ThrowPoints(a.nrow) : create_dmatrix_csr(a, throw)

-----------------------------------------------------------------------------
(* The task-execution shim: class ThreadPool of thread_pool_wasm.h.         *)
(* `events` is the trace of the tasks' executions, `futures` what enqueue   *)
(* returned for each submission, `call` the member function called last.    *)

NoPool ==
  [alive |-> FALSE, requested |-> 0, thread_count_ |-> 0, events |-> <<>>,
   futures |-> <<>>, call |-> [op |-> "none", arg |-> 0, ret |-> 0]]

\* the callables the engine submits
Tasks == {"train", "predict"}

\* thread_count_(threads > 0 ? threads : 1)
ThreadCount(threads) == IF threads > 0 THEN threads ELSE 1

\* an enqueue that leaves the task for later
RunLater(events, id) == events

\* task(): the packaged task runs, from its first statement to its last
RunTask(events, id) ==
  events \o <<[task |-> id, at |-> "begin"], [task |-> id, at |-> "end"]>>

\* the shared state of a packaged task is ready once the task has run
FutureReady(events, id) ==
  \E e \in DOMAIN events : events[e] = [task |-> id, at |-> "end"]

PoolCall(op, arg, ret) == [op |-> op, arg |-> arg, ret |-> ret]

\* the adapter's state, which the pool does not touch
AdapterUnchanged ==
  UNCHANGED <<last_error, fit_counter, saved_stdout_fd, fdtab, fs, heap, owned,
              last, client>>

\* ThreadPool(size_t threads)
ThreadPool ==
  /\ ~pool.alive
  /\ \E threads \in 0..MaxThreads :
       pool' = [pool EXCEPT !.alive = TRUE, !.requested = threads,
                            !.thread_count_ = ThreadCount(threads),
                            !.call = PoolCall("ThreadPool", threads, 0)]
  /\ AdapterUnchanged

\* enqueue(f, args...): the task is packaged, its future taken, the task run,
\* the future returned
enqueue ==
  /\ pool.alive
  /\ Len(pool.futures) < MaxTasks
  /\ \E f \in Tasks :
       LET id == Len(pool.futures) + 1
           ran == RunTask(pool.events, id)
           res == [task |-> id, f |-> f, ready |-> FutureReady(ran, id),
                   returned_at |-> Len(ran)]
       IN pool' = [pool EXCEPT !.events = ran,
                               !.futures = Append(pool.futures, res),
                               !.call = PoolCall("enqueue", f, id)]
  /\ AdapterUnchanged

\* Sync(wait_count): returns at once, whatever the count
Sync ==
  /\ pool.alive
  /\ \E wait_count \in 0..(MaxTasks + 1) :
       pool' = [pool EXCEPT !.call = PoolCall("Sync", wait_count, 0)]
  /\ AdapterUnchanged

\* ThreadNumber()
ThreadNumber ==
  /\ pool.alive
  /\ pool' = [pool EXCEPT !.call = PoolCall("ThreadNumber", 0, pool.thread_count_)]
  /\ AdapterUnchanged

-----------------------------------------------------------------------------
(* The adapter, called in any order *)

\* the process starts: nothing is allocated, stdout is the console
Start ==
  /\ last_error = EmptyMsg
  /\ fit_counter = 0
  /\ saved_stdout_fd = -1
  /\ fdtab = [fd \in Fds |-> IF fd = 0 THEN "stdin" ELSE IF fd = 1 THEN "console"
                             ELSE IF fd = 2 THEN "stderr" ELSE "closed"]
  /\ fs = [p \in {} |-> <<>>]
  /\ heap = [a \in {EngineVec} |-> [kind |-> "engine", data |-> <<>>]]
  /\ owned = [a \in {} |-> [kind |-> "none"]]
  /\ last = LastCall("none", <<>>, 0, <<>>, FALSE, FALSE, NoPath, NoWrite)
  /\ pool = NoPool

Init == client \in Clients /\ Start

Next ==
  \/ wl_xl_create
  \/ wl_xl_free_handle
  \/ wl_xl_set_str
  \/ wl_xl_set_int
  \/ wl_xl_set_float
  \/ wl_xl_set_bool
  \/ wl_xl_create_dmatrix_dense
  \/ wl_xl_create_dmatrix_csr
  \/ wl_xl_free_dmatrix
  \/ wl_xl_fit
  \/ wl_xl_predict
  \/ wl_xl_free_buffer

Spec == Init /\ [][Next]_vars

\* the builders alone, on every array of the model's size
InitMatrix == client = BuildClient /\ Start

NextMatrix ==
  \/ wl_xl_create_dmatrix_dense
  \/ wl_xl_create_dmatrix_csr
  \/ wl_xl_free_dmatrix

SpecMatrix == InitMatrix /\ [][NextMatrix]_vars

\* the error channel, under an engine whose messages are of any length
InitError == client = ErrorClient /\ Start

NextError ==
  \/ wl_xl_create
  \/ wl_xl_set_str
  \/ wl_xl_create_dmatrix_dense
  \/ wl_xl_fit
  \/ wl_xl_predict

SpecError == InitError /\ [][NextError]_vars

\* build_csr on arrays that need not be well formed
InitCsr == client = MalformedClient /\ Start

NextCsr ==
  \/ wl_xl_create_dmatrix_csr
  \/ wl_xl_free_dmatrix

SpecCsr == InitCsr /\ [][NextCsr]_vars

\* the engine's use of its ThreadPool
InitPool == client = EngineClient /\ Start

NextPool ==
  \/ ThreadPool
  \/ enqueue
  \/ Sync
  \/ ThreadNumber

SpecPool == InitPool /\ [][NextPool]_vars

-----------------------------------------------------------------------------
(* Properties.  `last` is the call that returned last: its arguments, its   *)
(* status, the engine calls it made, the staging path it allocated, and the *)
(* descriptor table and the counter it found on entry.                      *)

FallibleOps == {"wl_xl_create", "wl_xl_set_str", "wl_xl_set_int",
                "wl_xl_set_float", "wl_xl_set_bool",
                "wl_xl_create_dmatrix_dense", "wl_xl_create_dmatrix_csr",
                "wl_xl_fit", "wl_xl_predict"}
SetterOps == {"wl_xl_set_str", "wl_xl_set_int", "wl_xl_set_float", "wl_xl_set_bool"}
StagingOps == {"wl_xl_fit", "wl_xl_predict"}

\* C1: after fit or predict returns, on success and on every failure path,
\* the staging file at the path that call allocated no longer exists.
C1_StagingFileRemoved ==
  (last.op \in StagingOps /\ last.path # NoPath) => last.path \notin DOMAIN fs

\* C2: whenever a fallible operation returns a failure status, the stored
\* message is a diagnostic stored by that same call.
C2_FailureStoresDiagnostic ==
  (last.op \in FallibleOps /\ last.ret # 0)
    => (last.stored /\ wl_xl_get_last_error # EmptyMsg)

\* C3: every fallible operation, the four setters included, clears the stored
\* message on entry; so when the most recent fallible operation succeeded,
\* get_last_error returns the empty text.
C3_SuccessLeavesNoMessage ==
  (last.op \in FallibleOps /\ last.ret = 0)
    => wl_xl_get_last_error = EmptyMsg

\* the arguments C4 speaks of: a null required pointer, a non-positive nrow
\* or ncol, a non-positive model length
BadArguments(op, a) ==
  CASE op = "wl_xl_create" -> a.model_type = NULLP \/ a.out = NULL
    [] op = "wl_xl_set_str" -> a.handle = NULL \/ a.key = NULLP \/ a.value = NULLP
    [] op \in SetterOps \ {"wl_xl_set_str"} -> a.handle = NULL \/ a.key = NULLP
    [] op = "wl_xl_create_dmatrix_dense" ->
         a.data.null \/ a.out = NULL \/ a.nrow < 1 \/ a.ncol < 1
    [] op = "wl_xl_create_dmatrix_csr" ->
         a.values.null \/ a.col_indices.null \/ a.row_ptr.null \/ a.out = NULL
           \/ a.nrow < 1 \/ a.ncol < 1
    [] op = "wl_xl_fit" ->
         a.handle = NULL \/ a.dtrain = NULL \/ a.out_model_buf = NULL
           \/ a.out_model_len = NULL
    [] op = "wl_xl_predict" ->
         a.handle = NULL \/ a.model_buf = NULL \/ a.dtest = NULL
           \/ a.out_preds = NULL \/ a.out_len = NULL \/ a.model_len < 1

\* C4: a fallible operation given a null required pointer, a non-positive
\* nrow or ncol, or (predict) a non-positive model length returns a failure
\* status having made no engine call, allocated no staging path (the counter
\* is as it was) and left standard output alone.
C4_BadArgumentsFailFirst ==
  (last.op \in FallibleOps /\ BadArguments(last.op, last.args))
    => /\ last.ret # 0
       /\ last.engine = <<>>
       /\ last.path = NoPath
       /\ fit_counter = last.counter_before
       /\ ~last.suppressed
       /\ fdtab = last.fd_before

\* predict was called with a live handle, model and matrix and a model length
\* that is not positive, and failed
C4_Witness ==
  /\ last.op = "wl_xl_predict"
  /\ last.args.handle # NULL /\ last.args.model_buf # NULL
  /\ last.args.dtest # NULL
  /\ last.args.out_preds # NULL /\ last.args.out_len # NULL
  /\ last.args.model_len < 1
  /\ last.ret = -1

\* the engine setter behind each parameter setter, and the value it is given
EngineSetter(op) ==
  CASE op = "wl_xl_set_str" -> "XLearnSetStr"
    [] op = "wl_xl_set_int" -> "XLearnSetInt"
    [] op = "wl_xl_set_float" -> "XLearnSetFloat"
    [] op = "wl_xl_set_bool" -> "XLearnSetBool"
PassedValue(op, a) == IF op = "wl_xl_set_bool" THEN a.value # 0 ELSE a.value

\* the setter failed with an invalid-argument message and made no engine call
SetterRejected ==
  /\ last.ret = -1
  /\ last.engine = <<>>
  /\ last.stored

\* the setter made the one engine call and returned its status
SetterDelegated ==
  /\ Len(last.engine) = 1
  /\ last.engine[1].fn = EngineSetter(last.op)
  /\ last.engine[1].h = last.args.handle
  /\ last.engine[1].a = last.args.key
  /\ last.engine[1].b = PassedValue(last.op, last.args)
  /\ last.ret = last.engine[1].ret

\* C5 as the specification states it: the setters fail if handle or key is
\* null; for every other call, whatever the value, they call the engine's
\* typed setter with that key and value and return its status unchanged.
C5_SettersDelegateAnyValue ==
  last.op \in SetterOps =>
    IF last.args.handle = NULL \/ last.args.key = NULLP
      THEN SetterRejected
      ELSE SetterDelegated

\* C5, amended: the setters fail if handle or key is null, and set_str also
\* if its value is null; every other call goes to the engine's typed setter
\* with that key and value, and the engine's status is returned unchanged.
C5_SettersDelegate ==
  last.op \in SetterOps =>
    IF \/ last.args.handle = NULL
       \/ last.args.key = NULLP
       \/ (last.op = "wl_xl_set_str" /\ last.args.value = NULLP)
      THEN SetterRejected
      ELSE SetterDelegated

\* set_str was given a live handle, a key and a null value, and failed
C5_Witness ==
  /\ last.op = "wl_xl_set_str"
  /\ last.args.handle # NULL
  /\ last.args.key # NULLP
  /\ last.args.value = NULLP
  /\ last.ret = -1
  /\ last.engine = <<>>

BuilderOps == {"wl_xl_create_dmatrix_dense", "wl_xl_create_dmatrix_csr"}

\* the matrix the last call built
Built == heap[last.out[1]]

\* the CSR representation of a dense input with the zero entries omitted
ZerosOmitted(a) ==
  GridCsr(a.data.at, [k \in 1..(a.nrow * a.ncol) |-> a.data.at[k] # 0],
          a.nrow, a.ncol, a.label, a.field_map, a.out)

\* C6: for every dense input, build_dense produces the same rows, and per row
\* the same nodes, label and normalization scalar, as build_csr fed the CSR
\* representation of the same data with the zero entries omitted.
C6_DenseIsCsrOfNonZeros ==
  (last.op = "wl_xl_create_dmatrix_dense" /\ last.ret = 0) =>
    LET c == ZerosOmitted(last.args) IN
    Built = CsrMatrix(c.values, c.col_indices, c.row_ptr, c.nrow, c.label,
                      c.field_map)

\* a dense array with labels and a field map, zero and nonzero cells, was built
C6_Witness ==
  /\ last.op = "wl_xl_create_dmatrix_dense"
  /\ last.ret = 0
  /\ ~last.args.label.null
  /\ ~last.args.field_map.null
  /\ last.args.nrow > 1
  /\ \E k, l \in DOMAIN last.args.data.at :
       last.args.data.at[k] = 0 /\ last.args.data.at[l] # 0
  /\ ZerosOmitted(last.args).nnz < last.args.nrow * last.args.ncol
  /\ Built.has_label

RECURSIVE SumOfSquares(_)
SumOfSquares(nodes) ==
  IF nodes = <<>> THEN 0
  ELSE Head(nodes).feat_val * Head(nodes).feat_val + SumOfSquares(Tail(nodes))

\* C7: for every row of every matrix built by build_dense or build_csr, the
\* normalization scalar is 1 divided by the sum of the squared values of the
\* row's nodes when that sum is nonzero, and exactly 1 when it is zero.
C7_NormScalarOfRow ==
  (last.op \in BuilderOps /\ last.ret = 0) =>
    \A i \in DOMAIN Built.rows :
      LET sum == SumOfSquares(Built.rows[i].nodes) IN
      Built.rows[i].norm = IF sum # 0 THEN [num |-> 1, den |-> sum]
                           ELSE [num |-> 1, den |-> 1]

\* the rows (1, 0, 2) and (0, 0, 0) were built: two nodes and 1/5, no node and 1
C7_Witness ==
  /\ last.op = "wl_xl_create_dmatrix_dense"
  /\ last.ret = 0
  /\ last.args.data.at = <<1, 0, 2, 0, 0, 0>>
  /\ last.args.ncol = 3
  /\ Len(Built.rows[1].nodes) = 2
  /\ Built.rows[1].norm = [num |-> 1, den |-> 5]
  /\ Built.rows[2].nodes = <<>>
  /\ Built.rows[2].norm = [num |-> 1, den |-> 1]

\* C8: after fit or predict returns, whether it succeeded or failed, and also
\* when duplicating or opening a descriptor failed during suppression,
\* standard output refers to the same destination as before the call and no
\* saved descriptor is left outstanding.
C8_StdoutRestored ==
  last.op \in StagingOps =>
    /\ fdtab[1] = last.fd_before[1]
    /\ fdtab = last.fd_before
    /\ saved_stdout_fd = -1

\* C9: the staging counter never decreases and never resets, and a call that
\* allocates a staging path takes the counter's value as its identifier and
\* leaves the counter one higher, so no two calls get the same identifier.
C9_CounterAdvances ==
  [][ /\ fit_counter' >= fit_counter
      /\ last'.counter_before = fit_counter
      /\ IF last'.path # NoPath
           THEN last'.path[2] = fit_counter /\ fit_counter' = fit_counter + 1
           ELSE fit_counter' = fit_counter ]_vars

\* a fit and a predict have each allocated a staging path
C9_Witness ==
  /\ last.op = "wl_xl_predict"
  /\ last.path # NoPath
  /\ last.path[2] = 1
  /\ fit_counter = 2
  /\ \E c \in DOMAIN last.engine :
       last.engine[c].fn = "XLearnPredictForMat" /\ last.engine[c].a = last.path

\* C10: predict returns a freshly allocated array, never the engine's
\* pointer, holding as many elements as the engine reported and the engine's
\* results in order; and every array predict returned keeps the values it
\* was returned with, whatever the engine writes to its own buffer later.
C10_PredictionsAreCopies ==
  /\ (last.op = "wl_xl_predict" /\ last.ret = 0) =>
       /\ last.out[1] # EngineVec
       /\ heap[last.out[1]].kind = "floats"
       /\ last.out[2] = Len(heap[EngineVec].data)
       /\ heap[last.out[1]].data = heap[EngineVec].data
  /\ \A a \in OfKind("floats") :
       /\ a # EngineVec
       /\ a \in DOMAIN heap
       /\ heap[a].data = owned[a].data
       /\ Len(heap[a].data) = owned[a].len

\* the caller holds a prediction array, and a later predict has made the
\* engine overwrite its result buffer with other values
C10_Witness ==
  /\ last.op = "wl_xl_predict"
  /\ last.ret # 0
  /\ \E c \in DOMAIN last.engine : last.engine[c].fn = "XLearnPredictForMat"
  /\ \E a \in OfKind("floats") :
       /\ owned[a].data # <<>>
       /\ heap[EngineVec].data # <<>>
       /\ heap[EngineVec].data # owned[a].data
       /\ heap[a].data = owned[a].data

\* C11: when build_dense or build_csr fails during construction, the partly
\* built matrix is released before the call returns, a diagnostic is stored,
\* and no matrix allocated by the call remains allocated.
C11_PartialMatrixReleased ==
  (last.op \in BuilderOps /\ last.ret # 0) =>
    /\ last.stored
    /\ \A a \in DOMAIN heap : heap[a].kind = "dmatrix" => a \in DOMAIN owned

\* the calls of the engine routine fn that the last call made
EngineCalls(fn) == {c \in DOMAIN last.engine : last.engine[c].fn = fn}

\* C12: on a successful fit the returned buffer has the length and the content
\* of what the engine wrote to the staging path; and when those bytes and
\* that length are passed unmodified to predict, the engine reads from
\* predict's staging path the same byte sequence.
C12_ModelBytesRoundTrip ==
  /\ (last.op = "wl_xl_fit" /\ last.ret = 0) =>
       /\ EngineCalls("XLearnFit") # {}
       /\ \A c \in EngineCalls("XLearnFit") :
            /\ last.engine[c].a = last.path
            /\ last.out[2] = Len(last.engine[c].b)
            /\ heap[last.out[1]].data = last.engine[c].b
            /\ owned[last.out[1]].data = last.engine[c].b
  /\ (/\ last.op = "wl_xl_predict"
      /\ last.args.model_buf \in OfKind("bytes")
      /\ last.args.model_len = owned[last.args.model_buf].len) =>
       \A c \in EngineCalls("XLearnPredictForMat") :
         /\ last.engine[c].a = last.path
         /\ last.engine[c].b = owned[last.args.model_buf].data

\* predict was given the two bytes a fit returned, and the engine read them
C12_Witness ==
  /\ last.op = "wl_xl_predict"
  /\ last.ret = 0
  /\ last.args.model_buf \in OfKind("bytes")
  /\ last.args.model_len = 2
  /\ \E c \in EngineCalls("XLearnPredictForMat") :
       Len(last.engine[c].b) = 2 /\ last.engine[c].b = heap[last.args.model_buf].data

\* the seven host-safe defaults
HostSafeDefaults ==
  << <<"XLearnSetBool", "quiet", TRUE>>,
     <<"XLearnSetBool", "lock_free", FALSE>>,
     <<"XLearnSetBool", "from_file", FALSE>>,
     <<"XLearnSetBool", "bin_out", FALSE>>,
     <<"XLearnSetBool", "early_stop", FALSE>>,
     <<"XLearnSetInt", "nthread", 1>>,
     <<"XLearnSetStr", "log", "/dev/null">> >>

\* C13: whenever create returns success, the engine created the handle and
\* then took each of the seven defaults on it, before the handle reached the
\* caller; when the engine rejects the model type, create fails and no
\* default is applied.
C13_CreateAppliesDefaults ==
  last.op = "wl_xl_create" =>
    IF last.ret = 0
      THEN /\ Len(last.engine) = 1 + Len(HostSafeDefaults)
           /\ last.engine[1].fn = "XLearnCreate"
           /\ last.engine[1].ret = 0
           /\ \A i \in DOMAIN HostSafeDefaults :
                /\ last.engine[i + 1].fn = HostSafeDefaults[i][1]
                /\ last.engine[i + 1].h = last.out[1]
                /\ last.engine[i + 1].a = HostSafeDefaults[i][2]
                /\ last.engine[i + 1].b = HostSafeDefaults[i][3]
                /\ last.engine[i + 1].ret = 0
      ELSE /\ last.out = NoWrite
           /\ \A c \in DOMAIN last.engine : last.engine[c].fn = "XLearnCreate"

\* C14: the text get_last_error returns is null-terminated within the buffer,
\* at most 1023 characters long, and is the most recently stored diagnostic
\* cut to that length (a prefix of it), whatever the source message's length.
C14_ErrorTextBounded ==
  /\ wl_xl_get_last_error.len <= 1023
  /\ wl_xl_get_last_error.len < ErrBufSize
  /\ last.stored =>
       /\ wl_xl_get_last_error.text = last.msg.text
       /\ wl_xl_get_last_error.len =
            IF last.msg.len <= 1023 THEN last.msg.len ELSE 1023
  /\ (last.cleared /\ ~last.stored) => wl_xl_get_last_error = EmptyMsg

\* a call stored a message longer than the buffer, and it was cut to 1023
C14_Witness ==
  /\ last.stored
  /\ last.msg.len > 1023
  /\ wl_xl_get_last_error.text = last.msg.text
  /\ wl_xl_get_last_error.len = 1023

\* C15: build_csr filters nothing: row i gets one node per entry index in
\* [row_ptr[i], row_ptr[i+1]), in entry order, with column col_indices[entry],
\* value values[entry] and field field_map[column] (0 without a field map),
\* a stored zero included; build_dense creates no node for a zero value.
C15_CsrKeepsEveryEntry ==
  /\ (last.op = "wl_xl_create_dmatrix_csr" /\ last.ret = 0) =>
       \A i \in 1..last.args.nrow :
         LET first == last.args.row_ptr.at[i]
             end == last.args.row_ptr.at[i + 1]
             nodes == Built.rows[i].nodes
         IN /\ Len(nodes) = end - first
            /\ \A k \in 1..(end - first) :
                 LET col == last.args.col_indices.at[first + k] IN
                 /\ nodes[k].feat_id = col
                 /\ nodes[k].feat_val = last.args.values.at[first + k]
                 /\ nodes[k].field_id = IF last.args.field_map.null THEN 0
                                        ELSE last.args.field_map.at[col + 1]
  /\ (last.op = "wl_xl_create_dmatrix_dense" /\ last.ret = 0) =>
       \A i \in DOMAIN Built.rows :
         \A k \in DOMAIN Built.rows[i].nodes : Built.rows[i].nodes[k].feat_val # 0

\* build_csr was given a stored zero next to a nonzero entry, with a field
\* map, and added a node for it
C15_Witness ==
  /\ last.op = "wl_xl_create_dmatrix_csr"
  /\ last.ret = 0
  /\ ~last.args.field_map.null
  /\ \E i \in DOMAIN Built.rows :
       \E k, l \in DOMAIN Built.rows[i].nodes :
         /\ Built.rows[i].nodes[k].feat_val = 0
         /\ Built.rows[i].nodes[l].feat_val # 0

\* C16: the pool never defers work.  Every task passed to enqueue has run to
\* completion when enqueue returns, so its future is ready; the tasks run in
\* submission order, each from begin to end before the next begins; Sync
\* returns whatever its count; ThreadNumber is the requested count, at least
\* 1, and has no part in how the tasks run.
C16_TasksRunInline ==
  /\ Len(pool.events) = 2 * Len(pool.futures)
  /\ \A k \in DOMAIN pool.futures :
       /\ pool.futures[k].ready
       /\ pool.events[2 * k - 1] = [task |-> k, at |-> "begin"]
       /\ pool.events[2 * k] = [task |-> k, at |-> "end"]
       /\ pool.futures[k].returned_at >= 2 * k
  /\ pool.call.op = "Sync" => pool.call.ret = 0
  /\ pool.alive =>
       /\ pool.thread_count_ >= 1
       /\ pool.thread_count_ = IF pool.requested >= 1 THEN pool.requested ELSE 1
  /\ pool.call.op = "ThreadNumber" => pool.call.ret = pool.thread_count_

\* a pool asked for no worker reports one, has run three tasks one after the
\* other, and Sync was called for more tasks than were ever submitted
C16_Witness ==
  /\ pool.alive
  /\ pool.requested = 0
  /\ pool.thread_count_ = 1
  /\ Len(pool.futures) = 3
  /\ Len(pool.events) = 6
  /\ pool.call.op = "Sync"
  /\ pool.call.arg > Len(pool.futures)

\* the bindings the last call made, by role
Bindings(role) ==
  {c \in EngineCalls("XLearnSetDMatrix") : last.engine[c].a = role}

\* C17: fit binds the train matrix, then the validate matrix if there is one,
\* then allocates the staging path, then calls the engine's fit routine; when
\* a binding fails, fit fails without a staging path (the counter is where it
\* was), without redirecting standard output and without calling the routine.
C17_FitStepOrder ==
  last.op = "wl_xl_fit" =>
    /\ last.engine # <<>> =>
         /\ Bindings("train") = {1}
         /\ last.engine[1].h = last.args.handle
         /\ last.engine[1].b = last.args.dtrain
    /\ Bindings("validate") # {} =>
         /\ Bindings("validate") = {2}
         /\ last.args.dvalid # NULL
         /\ last.engine[2].b = last.args.dvalid
         /\ last.engine[1].ret = 0
    /\ (\E c \in EngineCalls("XLearnSetDMatrix") : last.engine[c].ret # 0) =>
         /\ last.ret = -1
         /\ last.path = NoPath
         /\ fit_counter = last.counter_before
         /\ ~last.suppressed
         /\ fdtab = last.fd_before
         /\ EngineCalls("XLearnFit") = {}
    /\ \A c \in EngineCalls("XLearnFit") :
         /\ c = Len(last.engine)
         /\ c = IF last.args.dvalid = NULL THEN 2 ELSE 3
         /\ \A b \in 1..(c - 1) :
              last.engine[b].fn = "XLearnSetDMatrix" /\ last.engine[b].ret = 0
         /\ last.path # NoPath
         /\ last.path[2] = last.counter_before
         /\ last.engine[c].a = last.path
         /\ fit_counter = last.counter_before + 1
    /\ last.path # NoPath => EngineCalls("XLearnFit") # {}

\* fit was given a validate matrix, bound the train matrix, and the engine
\* refused the validate matrix
C17_Witness ==
  /\ last.op = "wl_xl_fit"
  /\ last.args.dvalid # NULL
  /\ Len(last.engine) = 2
  /\ last.engine[1].ret = 0
  /\ last.engine[2].a = "validate"
  /\ last.engine[2].ret # 0
  /\ last.ret = -1
  /\ last.path = NoPath

\* C18: a matrix returned by a successful build_dense or build_csr has nrow
\* rows in input row order, has_label is true exactly when a label array was
\* supplied, and then row i carries label[i] for every i in [0, nrow).
C18_RowsAndLabels ==
  (last.op \in BuilderOps /\ last.ret = 0) =>
    /\ DOMAIN Built.rows = 1..last.args.nrow
    /\ Built.has_label <=> ~last.args.label.null
    /\ ~last.args.label.null =>
         \A i \in 1..last.args.nrow : Built.rows[i].Y = last.args.label.at[i]
    /\ last.op = "wl_xl_create_dmatrix_dense" =>
         \A i \in 1..last.args.nrow :
           LET cell(j) == last.args.data.at[(i - 1) * last.args.ncol + j]
               kept == {j \in 1..last.args.ncol : cell(j) # 0}
           IN /\ Len(Built.rows[i].nodes) = Cardinality(kept)
              /\ \A k \in DOMAIN Built.rows[i].nodes :
                   LET node == Built.rows[i].nodes[k] IN
                   (node.feat_id + 1) \in kept /\ node.feat_val = cell(node.feat_id + 1)

\* a labelled matrix of several rows with different labels was built
C18_Witness ==
  /\ last.op \in BuilderOps
  /\ last.ret = 0
  /\ last.args.nrow >= 3
  /\ Built.has_label
  /\ Built.rows[1].Y # Built.rows[2].Y
  /\ Built.rows[2].Y # Built.rows[3].Y
  /\ Built.rows[1].Y = last.args.label.at[1]

OutputOps == {"wl_xl_create", "wl_xl_create_dmatrix_dense",
              "wl_xl_create_dmatrix_csr", "wl_xl_fit", "wl_xl_predict"}

\* C19: whenever create, build_dense, build_csr, fit or predict returns a
\* failure status, it has written none of its output slots and nothing it
\* allocated remains allocated: every live block is one a successful call
\* handed to the caller.
C19_FailureWritesNothing ==
  (last.op \in OutputOps /\ last.ret # 0) =>
    /\ last.out = NoWrite
    /\ \A a \in DOMAIN heap \ {EngineVec} : a \in DOMAIN owned

\* C20: in every build_csr call that passes argument validation, every index
\* used to read values and col_indices lies in [0, nnz), every index used to
\* read row_ptr in [0, nrow] and every index used to read a supplied
\* field_map in [0, ncol): the builder reads nothing outside the arrays.
C20_CsrReadsInBounds ==
  (/\ last.op = "wl_xl_create_dmatrix_csr"
   /\ ~last.args.values.null
   /\ ~last.args.col_indices.null
   /\ ~last.args.row_ptr.null
   /\ last.args.nrow > 0
   /\ last.args.ncol > 0
   /\ last.args.out # NULL) =>
    /\ last.oob = {}
    /\ ~last.trapped

=============================================================================
